---------------------------- MODULE Spec2Model ----------------------------
(***************************************************************************)
(* NiriSetup: the menu/state UI (model.Update) and the Setup Actions it    *)
(* dispatches as commands.  A command runs in its own goroutine and hands  *)
(* one message back to the event loop, which feeds it to Update.           *)
(*                                                                         *)
(* A Go string is modelled as a sequence of tokens; fmt.Sprintf            *)
(* concatenates, strings.Join interleaves the separator.  The token "\n"   *)
(* is the newline.                                                         *)
(***************************************************************************)
EXTENDS Integers, Sequences, FiniteSets, TLC

VARIABLES
    m,        \* the model value held by the event loop (struct model)
    cmd,      \* the tea.Cmd returned by the last call of Update
    tasks,    \* commands dispatched and still running (one goroutine each)
    mailbox,  \* messages returned by commands, not yet handed to Update
    trace,    \* commands run and calls made since the last dispatch, with outcome
    fs,       \* the files the actions read and write
    dispatched, \* number of actions dispatched so far
    quit,     \* tea.Quit was returned: the program has ended
    pc        \* where main is: in setupEnvironment, at p.Start(), running, ended

vars == <<m, cmd, tasks, mailbox, trace, fs, dispatched, quit, pc>>

-----------------------------------------------------------------------------
(* Bounds *)

NumPkgs == 3     \* the install loop runs over the first NumPkgs packages
MaxActions == 2  \* at most MaxActions actions are dispatched in one run

-----------------------------------------------------------------------------
(* Strings *)

NL == "\n"

RECURSIVE Join(_, _)
Join(strs, sep) ==
    IF strs = <<>> THEN <<>>
    ELSE IF Len(strs) = 1 THEN Head(strs)
    ELSE Head(strs) \o <<sep>> \o Join(Tail(strs), sep)

RECURSIVE JoinNames(_, _)
JoinNames(names, sep) ==
    IF names = <<>> THEN <<>>
    ELSE IF Len(names) = 1 THEN <<Head(names)>>
    ELSE <<Head(names), sep>> \o JoinNames(Tail(names), sep)

NilErr == [nil |-> TRUE, text |-> <<>>]
Errorf(text) == [nil |-> FALSE, text |-> text]

-----------------------------------------------------------------------------
(* The UI *)

choices ==
    <<"Install Niri", "Setup System", "Configure Niri", "Validate Config",
      "Save Logs", "Exit">>

Keys == {"ctrl+c", "q", "up", "down", "enter", "x"}

initialModel ==
    [state |-> "menuView", cursor |-> 0, selected |-> "", logs |-> <<>>,
     isProcessing |-> FALSE, actionMsg |-> <<>>]

CursorUp(mm) ==
    IF mm.cursor > 0 THEN [mm EXCEPT !.cursor = mm.cursor - 1] ELSE mm

CursorDown_NoBound(mm) == [mm EXCEPT !.cursor = mm.cursor + 1]

CursorDown(mm) ==
    IF mm.cursor < Len(choices) - 1
    THEN [mm EXCEPT !.cursor = mm.cursor + 1] ELSE mm

Enter_NoExit(mm) ==
    LET sel == choices[mm.cursor + 1]
        m1  == [mm EXCEPT !.selected = sel, !.isProcessing = TRUE]
    IN  CASE sel = "Install Niri" ->
               [m |-> [m1 EXCEPT !.state = "installView"], cmd |-> "installNiri"]
          [] sel = "Setup System" ->
               [m |-> [m1 EXCEPT !.state = "installView"], cmd |-> "setupSystem"]
          [] sel = "Configure Niri" ->
               [m |-> [m1 EXCEPT !.state = "actionView",
                                 !.actionMsg = <<"Configuring Niri...">>],
                cmd |-> "configureNiri"]
          [] sel = "Validate Config" ->
               [m |-> [m1 EXCEPT !.state = "actionView",
                                 !.actionMsg = <<"Validating Niri config...">>],
                cmd |-> "validateNiriConfig"]
          [] sel = "Save Logs" ->
               [m |-> [m1 EXCEPT !.state = "actionView",
                                 !.actionMsg = <<"Saving logs...">>],
                cmd |-> "saveLogsToFile"]
          [] OTHER -> [m |-> m1, cmd |-> "nil"]

Enter(mm) ==
    LET sel == choices[mm.cursor + 1]
        m1  == [mm EXCEPT !.selected = sel, !.isProcessing = TRUE]
    IN  CASE sel = "Install Niri" ->
               [m |-> [m1 EXCEPT !.state = "installView"], cmd |-> "installNiri"]
          [] sel = "Setup System" ->
               [m |-> [m1 EXCEPT !.state = "installView"], cmd |-> "setupSystem"]
          [] sel = "Configure Niri" ->
               [m |-> [m1 EXCEPT !.state = "actionView",
                                 !.actionMsg = <<"Configuring Niri...">>],
                cmd |-> "configureNiri"]
          [] sel = "Validate Config" ->
               [m |-> [m1 EXCEPT !.state = "actionView",
                                 !.actionMsg = <<"Validating Niri config...">>],
                cmd |-> "validateNiriConfig"]
          [] sel = "Save Logs" ->
               [m |-> [m1 EXCEPT !.state = "actionView",
                                 !.actionMsg = <<"Saving logs...">>],
                cmd |-> "saveLogsToFile"]
          [] sel = "Exit" -> [m |-> m1, cmd |-> "Quit"]

KeyMenu(mm, key) ==
    CASE key \in {"ctrl+c", "q"} -> [m |-> mm, cmd |-> "Quit"]
      [] key = "up"    -> [m |-> CursorUp(mm), cmd |-> "nil"]
      [] key = "down"  -> [m |-> CursorDown(mm), cmd |-> "nil"]
      [] key = "enter" -> Enter(mm)
      [] OTHER         -> [m |-> mm, cmd |-> "nil"]

KeyBusy_Fallthrough(mm, key) == KeyMenu(mm, key)

KeyBusy_Quit(mm, key) ==
    IF key \in {"ctrl+c", "q"} THEN [m |-> mm, cmd |-> "Quit"]
    ELSE [m |-> mm, cmd |-> "nil"]

KeyBusy(mm, key) == [m |-> mm, cmd |-> "nil"]

UpdateKey(mm, key) ==
    IF mm.state = "menuView" THEN KeyMenu(mm, key) ELSE KeyBusy(mm, key)

UpdateStatus_KeepLogs(mm, msg) ==
    LET m1 == [mm EXCEPT !.logs = Append(mm.logs, msg.status),
                         !.isProcessing = FALSE]
    IN  IF msg.err.nil /\ mm.state = "installView"
        THEN [m1 EXCEPT !.state = "menuView"]
        ELSE IF msg.err.nil /\ mm.state = "actionView"
        THEN [m1 EXCEPT !.state = "menuView", !.actionMsg = msg.status]
        ELSE m1

UpdateStatus(mm, msg) ==
    LET m1 == [mm EXCEPT !.logs = Append(mm.logs, msg.status),
                         !.isProcessing = FALSE]
    IN  IF msg.err.nil /\ mm.state = "installView"
        THEN [m1 EXCEPT !.state = "menuView", !.logs = <<>>]
        ELSE IF msg.err.nil /\ mm.state = "actionView"
        THEN [m1 EXCEPT !.state = "menuView", !.actionMsg = msg.status]
        ELSE m1

-----------------------------------------------------------------------------
(* The views *)

(* style.Render(str): the text, set in the style *)
Render(style, str) == <<style \o "(">> \o str \o <<")">>

RECURSIVE renderMenuItems(_, _)
renderMenuItems(mm, j) ==
    IF j > Len(choices) THEN <<>>
    ELSE (IF mm.cursor = j - 1
          THEN Render("cursorStyle", <<"> ", choices[j]>>)
          ELSE Render("disabledStyle", <<"  ", choices[j]>>))
         \o <<NL>> \o renderMenuItems(mm, j + 1)

renderMenuView(mm) ==
    Render("titleStyle", <<"Niri Setup Assistant for GhostBSD">>) \o <<NL>>
        \o Render("menuStyle", renderMenuItems(mm, 1))

RECURSIVE renderLogs(_)
renderLogs(logs) ==
    IF logs = <<>> THEN <<>>
    ELSE Render("logStyle", Head(logs) \o <<NL>>) \o renderLogs(Tail(logs))

renderInstallView(mm) ==
    Render("titleStyle", <<"Installing Niri...">>)
        \o renderLogs(mm.logs)
        \o Render("logStyle", <<"Please wait...", NL>>)

renderActionView(mm) ==
    Render("actionStyle", mm.actionMsg \o <<NL, NL, "Please wait...">>)

View(mm) ==
    CASE mm.state = "menuView"    -> renderMenuView(mm)
      [] mm.state = "installView" -> renderInstallView(mm)
      [] mm.state = "actionView"  -> renderActionView(mm)
      [] OTHER                    -> <<"Unknown state!">>

-----------------------------------------------------------------------------
(* Install Niri *)

AllPkgs ==
    <<"drm-kmod", "mesa-libs", "mesa-dri", "consolekit2", "dbus", "niri",
      "xwayland-satellite", "seatd", "waybar", "grim", "jq", "wofi",
      "alacritty", "pam_xdg", "fuzzel", "swaylock", "foot", "wlsunset",
      "swaybg", "mako", "swayidle">>

pkgs == SubSeq(AllPkgs, 1, NumPkgs)

InstallOut(pkg) == "pkg: cannot install"

Checked(pkg, present) == <<"pkg info", pkg, present>>
Installed(pkg, ok) == <<"pkg install", pkg, ok>>

installStep_ForgetFailed(t, present, ok) ==
    LET pkg == pkgs[t.i]
    IN  IF present
        THEN [task |-> [t EXCEPT !.i = t.i + 1,
                          !.logs = Append(t.logs, <<"Already installed: ", pkg>>)],
              ran  |-> <<Checked(pkg, TRUE)>>]
        ELSE IF ~ok
        THEN [task |-> [t EXCEPT !.i = t.i + 1,
                          !.logs = Append(t.logs,
                              <<"Failed to install ", pkg, ": ", InstallOut(pkg)>>)],
              ran  |-> <<Checked(pkg, FALSE), Installed(pkg, FALSE)>>]
        ELSE [task |-> [t EXCEPT !.i = t.i + 1,
                          !.logs = Append(t.logs, <<"Successfully installed ", pkg>>)],
              ran  |-> <<Checked(pkg, FALSE), Installed(pkg, TRUE)>>]

installStep_Abort(t, present, ok) ==
    LET pkg == pkgs[t.i]
    IN  IF present
        THEN [task |-> [t EXCEPT !.i = t.i + 1,
                          !.logs = Append(t.logs, <<"Already installed: ", pkg>>)],
              ran  |-> <<Checked(pkg, TRUE)>>]
        ELSE IF ~ok
        THEN [task |-> [t EXCEPT !.i = Len(pkgs) + 1,
                          !.logs = Append(t.logs,
                              <<"Failed to install ", pkg, ": ", InstallOut(pkg)>>),
                          !.failed = Append(t.failed, pkg)],
              ran  |-> <<Checked(pkg, FALSE), Installed(pkg, FALSE)>>]
        ELSE [task |-> [t EXCEPT !.i = t.i + 1,
                          !.logs = Append(t.logs, <<"Successfully installed ", pkg>>)],
              ran  |-> <<Checked(pkg, FALSE), Installed(pkg, TRUE)>>]

installStep_AlwaysInstall(t, present, ok) ==
    LET pkg == pkgs[t.i]
    IN  IF ~ok
        THEN [task |-> [t EXCEPT !.i = t.i + 1,
                          !.logs = Append(t.logs,
                              <<"Failed to install ", pkg, ": ", InstallOut(pkg)>>),
                          !.failed = Append(t.failed, pkg)],
              ran  |-> <<Checked(pkg, present), Installed(pkg, FALSE)>>]
        ELSE [task |-> [t EXCEPT !.i = t.i + 1,
                          !.logs = Append(t.logs, <<"Successfully installed ", pkg>>)],
              ran  |-> <<Checked(pkg, present), Installed(pkg, TRUE)>>]

(* One turn of the loop over pkgs: present is what pkg info answers, ok is
   whether pkg install succeeds (it is consulted only if the install runs). *)
installStep(t, present, ok) ==
    LET pkg == pkgs[t.i]
    IN  IF present
        THEN [task |-> [t EXCEPT !.i = t.i + 1,
                          !.logs = Append(t.logs, <<"Already installed: ", pkg>>)],
              ran  |-> <<Checked(pkg, TRUE)>>]
        ELSE IF ~ok
        THEN [task |-> [t EXCEPT !.i = t.i + 1,
                          !.logs = Append(t.logs,
                              <<"Failed to install ", pkg, ": ", InstallOut(pkg)>>),
                          !.failed = Append(t.failed, pkg)],
              ran  |-> <<Checked(pkg, FALSE), Installed(pkg, FALSE)>>]
        ELSE [task |-> [t EXCEPT !.i = t.i + 1,
                          !.logs = Append(t.logs, <<"Successfully installed ", pkg>>)],
              ran  |-> <<Checked(pkg, FALSE), Installed(pkg, TRUE)>>]

FailedSummary(failed) ==
    <<NL, "Failed packages (", ToString(Len(failed)), "): ">>
        \o JoinNames(failed, ", ")

installReturn_NilOnSuccess(t) ==
    IF Len(t.failed) > 0
    THEN << [status |-> Join(Append(t.logs, FailedSummary(t.failed)), NL),
             err    |-> Errorf(<<ToString(Len(t.failed)),
                                 " packages failed to install">>)] >>
    ELSE <<>>

installReturn(t) ==
    IF Len(t.failed) > 0
    THEN << [status |-> Join(Append(t.logs, FailedSummary(t.failed)), NL),
             err    |-> Errorf(<<ToString(Len(t.failed)),
                                 " packages failed to install">>)] >>
    ELSE << [status |-> Join(t.logs, NL), err |-> NilErr] >>

-----------------------------------------------------------------------------
(* Validate Config *)

ExitErr == Errorf(<<"exit status 1">>)

validateNiriConfig(ok) ==
    IF ~ok
    THEN << [status |-> <<"Validation failed: ", "niri: invalid config">>,
             err    |-> ExitErr] >>
    ELSE << [status |-> <<"Niri configuration is valid.">>, err |-> NilErr] >>

-----------------------------------------------------------------------------
(* Save Logs *)

Absent == <<"absent">>      \* a path at which no file exists

LogFilePath == "/tmp/nirisetup.log"

saveOpen_Truncate(t, f, ok) ==
    IF ~ok
    THEN [done |-> TRUE, task |-> t, fs |-> f,
          msgs |-> << [status |-> <<"Failed to open log file for writing">>,
                       err    |-> Errorf(<<"open: permission denied">>)] >>]
    ELSE [done |-> FALSE, task |-> [t EXCEPT !.pc = "write"],
          fs   |-> [f EXCEPT !.logFile = <<>>],
          msgs |-> <<>>]

(* os.OpenFile(logFile, O_APPEND|O_CREATE|O_WRONLY, 0644) *)
saveOpen(t, f, ok) ==
    IF ~ok
    THEN [done |-> TRUE, task |-> t, fs |-> f,
          msgs |-> << [status |-> <<"Failed to open log file for writing">>,
                       err    |-> Errorf(<<"open: permission denied">>)] >>]
    ELSE [done |-> FALSE, task |-> [t EXCEPT !.pc = "write"],
          fs   |-> IF f.logFile = Absent THEN [f EXCEPT !.logFile = <<>>] ELSE f,
          msgs |-> <<>>]

(* One turn of the loop over m.logs: file.WriteString(log + "\n") *)
saveWrite(t, f, ok) ==
    IF ~ok
    THEN [done |-> TRUE, task |-> t, fs |-> f,
          msgs |-> << [status |-> <<"Failed to write to log file">>,
                       err    |-> Errorf(<<"write: no space left on device">>)] >>]
    ELSE [done |-> FALSE, task |-> [t EXCEPT !.i = t.i + 1],
          fs   |-> [f EXCEPT !.logFile = f.logFile \o t.mlogs[t.i] \o <<NL>>],
          msgs |-> <<>>]

saveReturn(t) ==
    << [status |-> <<"Logs saved to ", LogFilePath>>, err |-> NilErr] >>

-----------------------------------------------------------------------------
(* findRenderDevice *)

DriNames == <<"card0", "renderD128", "renderD129">>  \* in sorted order
IsRenderNode(j) == j \in {2, 3}                     \* HasPrefix(name, "renderD")

Min(S) == CHOOSE x \in S : \A y \in S : x <= y

(* entries: the indices in DriNames of the entries of /dev/dri *)
findRenderDevice(readOk, entries) ==
    LET renderNodes == {j \in entries : IsRenderNode(j)}
    IN  IF ~readOk THEN ""
        ELSE IF renderNodes = {} THEN ""
        ELSE DriNames[Min(renderNodes)]

(* What os.ReadDir("/dev/dri") can answer.  The kernel numbers render nodes
   upwards from 128, so renderD129 is there only together with renderD128. *)
DriEnvs ==
    {[readOk |-> FALSE, entries |-> {}]} \cup
    [readOk : {TRUE}, entries : {S \in SUBSET (1..Len(DriNames)) : 3 \in S => 2 \in S}]

-----------------------------------------------------------------------------
(* Configure Niri *)

DestConfigPath == "~/.config/niri/config.kdl"

Templates == { <<"layout {}">>, <<"layout {}", "render-drm-device">> }

(* strings.Contains over the substrings the program looks for *)
Occurs(sub, tok) ==
    \/ tok = sub
    \/ <<sub, tok>> \in
         { <<"render-drm-device", "    render-drm-device \"">>,
           <<"XDG_RUNTIME_DIR", "# Set XDG_RUNTIME_DIR for Wayland compositors">>,
           <<"XDG_RUNTIME_DIR", "export XDG_RUNTIME_DIR=/tmp/1001-runtime-dir">>,
           <<"LIBSEAT_BACKEND", "export LIBSEAT_BACKEND=consolekit2">>,
           <<"already running", "dbus already running? (pid=411)">>,
           <<"already running", "seatd already running? (pid=523)">>,
           <<"already loaded", "kldload: can't load drm: module already loaded or in kernel">>,
           <<"module already loaded", "kldload: can't load drm: module already loaded or in kernel">> }

Contains(str, sub) == \E j \in 1..Len(str) : Occurs(sub, str[j])

(* What the os calls of configureNiri can answer.  A call that is not reached
   answers its default, so that every run is listed once. *)
ConfigureEnvs ==
    LET All == [homeOk : BOOLEAN, mkdirOk : BOOLEAN, exeOk : BOOLEAN,
                besideExe : BOOLEAN, inCwd : BOOLEAN, readOk : BOOLEAN,
                template : Templates, dri : DriEnvs,
                write : {"ok", "open", "write"}]
        Rest(e) == <<e.mkdirOk, e.exeOk, e.besideExe, e.inCwd, e.readOk,
                     e.template, e.dri, e.write>>
        Default == <<TRUE, TRUE, TRUE, TRUE, TRUE, <<"layout {}">>,
                     [readOk |-> FALSE, entries |-> {}], "ok">>
        From(e, k) == SubSeq(Rest(e), k, 8) = SubSeq(Default, k, 8)
    IN  {e \in All :
           /\ ~e.homeOk => From(e, 1)
           /\ ~e.mkdirOk => From(e, 2)
           /\ ~e.exeOk => From(e, 3)
           /\ e.besideExe => e.inCwd
           /\ (~e.besideExe /\ ~e.inCwd) => From(e, 5)
           /\ ~e.readOk => From(e, 6)}

Launch ==
    <<NL, NL, "To start niri, switch to a TTY (Ctrl+Alt+F2) and run:", NL,
      "  LIBSEAT_BACKEND=consolekit2 ck-launch-session dbus-launch niri --session">>

WriteFile_Append(f, data, how) ==
    CASE how = "open"  -> f
      [] how = "write" -> f
      [] OTHER         -> [f EXCEPT !.destConfig =
                              IF f.destConfig = Absent THEN data
                              ELSE f.destConfig \o data]

(* os.WriteFile(destConfig, data, 0644) opens the destination with O_TRUNC:
   it can fail to open it, which leaves the file as it was, or fail while
   writing, after the truncation. *)
WriteFile(f, data, how) ==
    CASE how = "open"  -> f
      [] how = "write" -> [f EXCEPT !.destConfig = <<>>]
      [] OTHER         -> [f EXCEPT !.destConfig = data]

configureNiri_CreatesDest(f, e) ==
    LET f1        == [f EXCEPT !.configDir = TRUE]
        renderDev == findRenderDevice(e.dri.readOk, e.dri.entries)
        debugBlock ==
            <<NL, "// Explicitly set the DRM render device for EGL display creation.",
              NL, "debug {", NL, "    render-drm-device \"", renderDev, "\"", NL,
              "}", NL>>
        configStr == IF renderDev # "" /\ ~Contains(e.template, "render-drm-device")
                     THEN e.template \o debugBlock ELSE e.template
        msg0      == <<"Niri configuration copied to ", DestConfigPath>>
        msg1      == IF renderDev # ""
                     THEN msg0 \o <<NL, "DRM render device set to: ", renderDev>>
                     ELSE msg0
    IN  IF ~e.homeOk
        THEN [fs |-> f,
              msgs |-> << [status |-> <<"Failed to determine home directory">>,
                           err |-> Errorf(<<"$HOME is not defined">>)] >>]
        ELSE IF ~e.mkdirOk
        THEN [fs |-> f,
              msgs |-> << [status |-> <<"Failed to create config directory: ",
                                        "mkdir: permission denied">>,
                           err |-> Errorf(<<"mkdir: permission denied">>)] >>]
        ELSE IF ~e.exeOk
        THEN [fs |-> f1,
              msgs |-> << [status |-> <<"Failed to determine executable path">>,
                           err |-> Errorf(<<"readlink: no such file">>)] >>]
        ELSE IF ~e.besideExe /\ ~e.inCwd
        THEN [fs |-> [f1 EXCEPT !.destConfig = <<>>],
              msgs |-> << [status |-> <<"config.kdl not found next to executable or in current directory">>,
                           err |-> Errorf(<<"stat: no such file or directory">>)] >>]
        ELSE IF ~e.readOk
        THEN [fs |-> f1,
              msgs |-> << [status |-> <<"Failed to read source config: ",
                                        "read: permission denied">>,
                           err |-> Errorf(<<"read: permission denied">>)] >>]
        ELSE IF e.write = "open"
        THEN [fs |-> WriteFile(f1, configStr, e.write),
              msgs |-> << [status |-> <<"Failed to write config: ",
                                        "open: permission denied">>,
                           err |-> Errorf(<<"open: permission denied">>)] >>]
        ELSE IF e.write = "write"
        THEN [fs |-> WriteFile(f1, configStr, e.write),
              msgs |-> << [status |-> <<"Failed to write config: ",
                                        "write: no space left on device">>,
                           err |-> Errorf(<<"write: no space left on device">>)] >>]
        ELSE [fs |-> WriteFile(f1, configStr, e.write),
              msgs |-> << [status |-> msg1 \o Launch, err |-> NilErr] >>]

configureNiri(f, e) ==
    LET f1        == [f EXCEPT !.configDir = TRUE]
        renderDev == findRenderDevice(e.dri.readOk, e.dri.entries)
        debugBlock ==
            <<NL, "// Explicitly set the DRM render device for EGL display creation.",
              NL, "debug {", NL, "    render-drm-device \"", renderDev, "\"", NL,
              "}", NL>>
        configStr == IF renderDev # "" /\ ~Contains(e.template, "render-drm-device")
                     THEN e.template \o debugBlock ELSE e.template
        msg0      == <<"Niri configuration copied to ", DestConfigPath>>
        msg1      == IF renderDev # ""
                     THEN msg0 \o <<NL, "DRM render device set to: ", renderDev>>
                     ELSE msg0
    IN  IF ~e.homeOk
        THEN [fs |-> f,
              msgs |-> << [status |-> <<"Failed to determine home directory">>,
                           err |-> Errorf(<<"$HOME is not defined">>)] >>]
        ELSE IF ~e.mkdirOk
        THEN [fs |-> f,
              msgs |-> << [status |-> <<"Failed to create config directory: ",
                                        "mkdir: permission denied">>,
                           err |-> Errorf(<<"mkdir: permission denied">>)] >>]
        ELSE IF ~e.exeOk
        THEN [fs |-> f1,
              msgs |-> << [status |-> <<"Failed to determine executable path">>,
                           err |-> Errorf(<<"readlink: no such file">>)] >>]
        ELSE IF ~e.besideExe /\ ~e.inCwd
        THEN [fs |-> f1,
              msgs |-> << [status |-> <<"config.kdl not found next to executable or in current directory">>,
                           err |-> Errorf(<<"stat: no such file or directory">>)] >>]
        ELSE IF ~e.readOk
        THEN [fs |-> f1,
              msgs |-> << [status |-> <<"Failed to read source config: ",
                                        "read: permission denied">>,
                           err |-> Errorf(<<"read: permission denied">>)] >>]
        ELSE IF e.write = "open"
        THEN [fs |-> WriteFile(f1, configStr, e.write),
              msgs |-> << [status |-> <<"Failed to write config: ",
                                        "open: permission denied">>,
                           err |-> Errorf(<<"open: permission denied">>)] >>]
        ELSE IF e.write = "write"
        THEN [fs |-> WriteFile(f1, configStr, e.write),
              msgs |-> << [status |-> <<"Failed to write config: ",
                                        "write: no space left on device">>,
                           err |-> Errorf(<<"write: no space left on device">>)] >>]
        ELSE [fs |-> WriteFile(f1, configStr, e.write),
              msgs |-> << [status |-> msg1 \o Launch, err |-> NilErr] >>]

-----------------------------------------------------------------------------
(* Setup System *)

steps ==
    << [desc |-> "Enabling dbus service",  cmd |-> <<"sudo", "sysrc", "dbus_enable=YES">>],
       [desc |-> "Starting dbus service",  cmd |-> <<"sudo", "service", "dbus", "start">>],
       [desc |-> "Enabling seatd service", cmd |-> <<"sudo", "sysrc", "seatd_enable=YES">>],
       [desc |-> "Starting seatd service", cmd |-> <<"sudo", "service", "seatd", "start">>] >>

(* What a command can answer: it succeeds, or it fails with an output. *)
Ok == [ok |-> TRUE, out |-> <<>>]
Fails(out) == [ok |-> FALSE, out |-> out]

(* steps 1 and 3 run sysrc, steps 2 and 4 start a service *)
ServiceAnswers(j) ==
    IF j \in {1, 3}
    THEN { Ok, Fails(<<"sudo: a password is required">>) }
    ELSE { Ok,
           Fails(<<IF j = 2 THEN "dbus already running? (pid=411)"
                            ELSE "seatd already running? (pid=523)">>),
           Fails(<<"sudo: a password is required">>) }

KldloadAnswers ==
    { Ok,
      Fails(<<"kldload: can't load drm: module already loaded or in kernel">>),
      Fails(<<"kldload: can't load drm: No such file or directory">>) }

SudoAnswers == { Ok, Fails(<<"sudo: a password is required">>) }

Users == {"", "alice"}      \* $USER, or $LOGNAME when $USER is empty

Logged(t, line, at) == [t EXCEPT !.logs = Append(t.logs, line), !.pc = at]

serviceStep_AbortOnFailure(t, a) ==
    LET step == steps[t.i]
        hard == ~a.ok /\ ~Contains(a.out, "already running")
        line == IF ~a.ok
                THEN IF hard
                     THEN <<"Warning: ", step.desc, ": ">> \o a.out
                     ELSE <<step.desc, ": already running">>
                ELSE <<step.desc, ": OK">>
    IN  [t EXCEPT !.logs = Append(t.logs, line), !.i = t.i + 1,
                  !.pc = IF hard THEN "return"
                         ELSE IF t.i = Len(steps) THEN "group" ELSE "services"]

serviceStep_SilentIfRunning(t, a) ==
    LET step == steps[t.i]
        line == IF ~a.ok
                THEN <<"Warning: ", step.desc, ": ">> \o a.out
                ELSE <<step.desc, ": OK">>
    IN  [t EXCEPT !.logs = IF ~a.ok /\ Contains(a.out, "already running")
                           THEN t.logs ELSE Append(t.logs, line),
                  !.i = t.i + 1,
                  !.pc = IF t.i = Len(steps) THEN "group" ELSE "services"]

(* One turn of the loop over steps *)
serviceStep(t, a) ==
    LET step == steps[t.i]
        line == IF ~a.ok
                THEN IF ~Contains(a.out, "already running")
                     THEN <<"Warning: ", step.desc, ": ">> \o a.out
                     ELSE <<step.desc, ": already running">>
                ELSE <<step.desc, ": OK">>
    IN  [t EXCEPT !.logs = Append(t.logs, line), !.i = t.i + 1,
                  !.pc = IF t.i = Len(steps) THEN "group" ELSE "services"]

groupStep(t, currentUser, a) ==
    IF currentUser # ""
    THEN IF ~a.ok
         THEN Logged(t, <<"Warning: Adding user to video group: ">> \o a.out, "kldload")
         ELSE Logged(t, <<"Added user '", currentUser, "' to video group: OK">>, "kldload")
    ELSE Logged(t, <<"Warning: Could not determine current user for group setup">>,
                "kldload")

kldloadStep(t, a) ==
    IF ~a.ok
    THEN IF Contains(a.out, "already loaded") \/ Contains(a.out, "module already loaded")
         THEN Logged(t, <<"Loading DRM kernel module: already loaded">>, "sysrc")
         ELSE Logged(t, <<"Warning: Loading DRM kernel module: ">> \o a.out, "sysrc")
    ELSE Logged(t, <<"Loading DRM kernel module: OK">>, "sysrc")

sysrcStep(t, a) ==
    IF ~a.ok
    THEN Logged(t, <<"Warning: Persisting DRM module to boot: ">> \o a.out, "xdg")
    ELSE Logged(t, <<"Persisting DRM module to boot: OK">>, "xdg")

ProfilePath == "~/.profile"
XdgLine == "export XDG_RUNTIME_DIR=/tmp/1001-runtime-dir"

(* os.ReadFile(profilePath): the content, or "" with an error *)
ReadProfile(f) ==
    IF f.profile = Absent \/ ~f.profileRead
    THEN [ok |-> FALSE, data |-> <<>>]
    ELSE [ok |-> TRUE, data |-> f.profile]

(* os.OpenFile(profilePath, O_APPEND|O_CREATE|O_WRONLY, 0644), the writes
   and the Close *)
AppendProfile(f, text) ==
    IF f.profile = Absent
    THEN [f EXCEPT !.profile = text, !.profileRead = TRUE]
    ELSE [f EXCEPT !.profile = f.profile \o text]

OpenWarning == <<"Warning: Could not write to ", ProfilePath, ": ",
                 "open: permission denied">>

profileXdgStep(t, f) ==
    LET rd == ReadProfile(f)
        f1 == AppendProfile(f,
                  <<NL, "# Set XDG_RUNTIME_DIR for Wayland compositors", NL,
                    XdgLine, NL>>)
    IN  IF ~rd.ok \/ ~Contains(rd.data, "XDG_RUNTIME_DIR")
        THEN IF ~f.profileWrite
             THEN [task |-> [Logged(t, OpenWarning, "libseat")
                                EXCEPT !.profileStr = rd.data],
                   fs |-> f]
             ELSE [task |-> [Logged(t, <<"Added XDG_RUNTIME_DIR to ", ProfilePath,
                                         ": OK">>, "libseat")
                                EXCEPT !.profileStr = ReadProfile(f1).data],
                   fs |-> f1]
        ELSE [task |-> [Logged(t, <<"XDG_RUNTIME_DIR already in .profile: OK">>,
                               "libseat")
                           EXCEPT !.profileStr = rd.data],
              fs |-> f]

profileLibseatStep(t, f) ==
    IF ~Contains(t.profileStr, "LIBSEAT_BACKEND")
    THEN IF ~f.profileWrite
         THEN [task |-> Logged(t, OpenWarning, "render"), fs |-> f]
         ELSE [task |-> Logged(t, <<"Added LIBSEAT_BACKEND=consolekit2 to .profile: OK">>,
                               "render"),
               fs |-> AppendProfile(f, <<"export LIBSEAT_BACKEND=consolekit2", NL>>)]
    ELSE [task |-> Logged(t, <<"LIBSEAT_BACKEND already in .profile: OK">>, "render"),
          fs |-> f]

renderStep(t, dri, openOk) ==
    LET renderDev == findRenderDevice(dri.readOk, dri.entries)
        t1 == Logged(t, <<"Found DRM render device: ", renderDev>>, "return")
    IN  IF renderDev # ""
        THEN IF ~openOk
             THEN Logged(t1, <<"Warning: Cannot access ", renderDev, ": ",
                               "open: permission denied",
                               " (check video group membership)">>, "return")
             ELSE Logged(t1, <<"DRM render device ", renderDev, " is accessible: OK">>,
                         "return")
        ELSE Logged(Logged(t, <<"Warning: No DRM render device found in /dev/dri/">>,
                           "return"),
                    <<"  GPU drivers may not be loaded. Check that drm and your GPU kernel module are loaded.">>,
                    "return")

SetupTrailer ==
    << <<>>,
       <<"System setup complete. You may need to log out and back in for group changes to take effect.">>,
       <<>>,
       <<"To start niri, switch to a TTY (Ctrl+Alt+F2) and run:">>,
       <<"  LIBSEAT_BACKEND=consolekit2 ck-launch-session dbus-launch niri --session">> >>

setupReturn(t) ==
    << [status |-> Join(t.logs \o SetupTrailer, NL), err |-> NilErr] >>

-----------------------------------------------------------------------------
(* The event loop and the command goroutines *)

MaxWarnings == 1  \* setupSystem: at most MaxWarnings steps of a run do not succeed

NewTask(c, mm) ==
    [kind |-> c, pc |-> IF c = "setupSystem" THEN "services" ELSE "open",
     i |-> 1, logs |-> <<>>, failed |-> <<>>, mlogs |-> mm.logs,
     profileStr |-> <<>>, warn |-> 0]

IsAction(c) == c \notin {"nil", "Quit"}

(* A fresh home directory: none of the files the actions write exists yet. *)
FreshFs ==
    [logFile |-> Absent, destConfig |-> Absent, configDir |-> FALSE,
     profile |-> Absent, profileRead |-> FALSE, profileWrite |-> TRUE,
     runtimeDir |-> Absent, xdgRuntimeDir |-> "",
     profileAtStart |-> Absent]   \* what ~/.profile was when the program started

-----------------------------------------------------------------------------
(* main and setupEnvironment *)

Euid == 1001                 \* os.Geteuid()

RuntimeDirPath == "/tmp/1001-runtime-dir"

(* An entry at the runtime directory path: a directory, or a symbolic link
   that owner made to a directory of targetUid. *)
Dir(uid, mode) == <<"dir", uid, mode>>
Link(owner, targetUid) == <<"link", owner, targetUid>>

(* The owner of the entry itself (what os.Lstat would report). *)
EntryOwner(entry) == entry[2]

(* stat.Uid as os.Stat reports it: os.Stat follows a symbolic link and
   describes the directory the link points to. *)
Owner(entry) == IF entry[1] = "link" THEN entry[3] ELSE entry[2]

(* What can be at the path when the program starts: nothing, the directory
   an earlier run created, or a directory somebody else (here UID 0) put
   there. *)
RuntimeDirs == {Absent, Dir(Euid, "0700"), Dir(0, "0777")}

Mkdir_Open(f, ok) ==
    IF ok /\ f.runtimeDir = Absent
    THEN [f EXCEPT !.runtimeDir = Dir(Euid, "0777")] ELSE f

(* os.Mkdir(runtimeDir, 0700) *)
Mkdir(f, ok) ==
    IF ok /\ f.runtimeDir = Absent
    THEN [f EXCEPT !.runtimeDir = Dir(Euid, "0700")] ELSE f

OwnerOk_Any(entry) == TRUE

(* stat.Uid != uint32(userID) is fatal *)
OwnerOk(entry) == Owner(entry) = Euid

(* The program starts in one of the home directories homes. *)
InitIn(homes) ==
    /\ m = initialModel
    /\ cmd = "nil"
    /\ tasks = <<>>
    /\ mailbox = <<>>
    /\ trace = <<>>
    /\ fs \in {[h EXCEPT !.runtimeDir = d] : h \in homes, d \in RuntimeDirs}
    /\ dispatched = 0
    /\ quit = FALSE
    /\ pc = "setupEnvironment"

Init == InitIn({FreshFs})

(* Home directories with a ~/.profile: one without the export lines, one
   with both, and one that cannot be read (mode 0200) but can be appended
   to. *)
ProfileHomes ==
    {FreshFs} \cup
    {[FreshFs EXCEPT !.profile = p.text, !.profileAtStart = p.text,
                     !.profileRead = p.read] :
        p \in {[text |-> <<"# .profile", NL>>, read |-> TRUE],
                [text |-> <<"# .profile", NL, XdgLine, NL,
                            "export LIBSEAT_BACKEND=consolekit2", NL>>, read |-> TRUE],
                [text |-> <<"# .profile", NL>>, read |-> FALSE]}}

Ui == <<m, cmd, tasks, mailbox, dispatched, quit>>

(* setupEnvironment, lines 495-504: os.Setenv and the first os.Stat.  Only
   "no such entry" leads to the creation; an entry, or any other answer of
   Stat, leads to the ownership check. *)
StatRuntimeDir ==
    /\ pc = "setupEnvironment"
    /\ fs' = [fs EXCEPT !.xdgRuntimeDir = RuntimeDirPath]
    /\ pc' = IF fs.runtimeDir = Absent THEN "Mkdir" ELSE "check"
    /\ trace' = Append(trace, <<"Stat", RuntimeDirPath, fs.runtimeDir # Absent>>)
    /\ UNCHANGED Ui

(* lines 506-508: os.Mkdir; a failure is fatal (log.Fatalf exits with 1) *)
MkdirRuntimeDir ==
    /\ pc = "Mkdir"
    /\ \E ok \in BOOLEAN :
          /\ fs.runtimeDir # Absent => ~ok      \* EEXIST
          /\ fs' = Mkdir(fs, ok)
          /\ pc' = IF ok THEN "Start" ELSE "fatal"
          /\ trace' = Append(trace, <<"Mkdir", RuntimeDirPath, ok>>)
    /\ UNCHANGED Ui

(* lines 511-524: the second os.Stat and the comparison of the owner *)
CheckOwner ==
    /\ pc = "check"
    /\ \E statOk \in BOOLEAN :
          /\ pc' = IF statOk /\ OwnerOk(fs.runtimeDir) THEN "Start" ELSE "fatal"
          /\ trace' = Append(trace, <<"Stat", RuntimeDirPath, statOk>>)
    /\ UNCHANGED <<fs, Ui>>

(* What another user can put at the path: a directory of their own, or a
   symbolic link of their own to a directory of theirs or of the user. *)
PlantedEntries == {Dir(0, "0777"), Link(0, 0), Link(0, Euid)}

(* Another user of /tmp creates an entry at the path while setupEnvironment
   runs.  /tmp is sticky: they cannot replace an entry that is not theirs. *)
Plant ==
    /\ pc \in {"setupEnvironment", "Mkdir", "check"}
    /\ fs.runtimeDir = Absent
    /\ \E entry \in PlantedEntries : fs' = [fs EXCEPT !.runtimeDir = entry]
    /\ UNCHANGED <<Ui, trace, pc>>

(* main, lines 530-533: tea.NewProgram(initialModel()) and p.Start(), which
   can fail to take the terminal *)
Start ==
    /\ pc = "Start"
    /\ \E ok \in BOOLEAN :
          /\ pc' = IF ok THEN "running" ELSE "fatal"
          /\ m' = initialModel
    /\ UNCHANGED <<cmd, tasks, mailbox, trace, fs, dispatched, quit>>

(* The event loop reads a key and calls Update; a returned command is
   started in a goroutine of its own, tea.Quit ends the program. *)
Key(k) ==
    /\ pc = "running"
    /\ ~quit
    /\ LET r == UpdateKey(m, k)
       IN  /\ IsAction(r.cmd) => dispatched < MaxActions
           /\ m' = r.m
           /\ cmd' = r.cmd
           /\ quit' = (r.cmd = "Quit")
           /\ tasks' = IF IsAction(r.cmd)
                       THEN Append(tasks, NewTask(r.cmd, r.m)) ELSE tasks
           /\ trace' = IF IsAction(r.cmd) THEN <<>> ELSE trace
           /\ dispatched' = IF IsAction(r.cmd) THEN dispatched + 1 ELSE dispatched
    /\ UNCHANGED <<mailbox, fs, pc>>

(* The event loop takes a command's message and calls Update. *)
Deliver ==
    /\ pc = "running"
    /\ ~quit
    /\ mailbox # <<>>
    /\ m' = UpdateStatus(m, Head(mailbox))
    /\ cmd' = "nil"
    /\ mailbox' = Tail(mailbox)
    /\ trace' = <<>>
    /\ UNCHANGED <<tasks, fs, dispatched, quit, pc>>

Remove(s, n) == SubSeq(s, 1, n - 1) \o SubSeq(s, n + 1, Len(s))

Running(n, kind, at) ==
    /\ pc = "running"
    /\ ~quit
    /\ n \in 1..Len(tasks)
    /\ tasks[n].kind = kind
    /\ tasks[n].pc = at

(* The goroutine of task n goes on as t. *)
Continue(n, t) ==
    /\ tasks' = [tasks EXCEPT ![n] = t]
    /\ UNCHANGED <<m, cmd, mailbox, dispatched, quit, pc>>

(* The goroutine of task n returns msgs to the event loop. *)
Return(n, msgs) ==
    /\ tasks' = Remove(tasks, n)
    /\ mailbox' = mailbox \o msgs
    /\ UNCHANGED <<m, cmd, dispatched, quit, pc>>

InstallLoop(n) ==
    /\ Running(n, "installNiri", "open")
    /\ tasks[n].i <= Len(pkgs)
    /\ \E present \in BOOLEAN, ok \in BOOLEAN :
          LET r == installStep(tasks[n], present, ok)
          IN  /\ present => ok
              /\ Continue(n, r.task)
              /\ trace' = trace \o r.ran
    /\ UNCHANGED fs

InstallDone(n) ==
    /\ Running(n, "installNiri", "open")
    /\ tasks[n].i > Len(pkgs)
    /\ Return(n, installReturn(tasks[n]))
    /\ UNCHANGED <<trace, fs>>

Validate(n) ==
    /\ Running(n, "validateNiriConfig", "open")
    /\ \E ok \in BOOLEAN :
          /\ Return(n, validateNiriConfig(ok))
          /\ trace' = Append(trace, <<"niri validate", "", ok>>)
    /\ UNCHANGED fs

SaveOpen(n) ==
    /\ Running(n, "saveLogsToFile", "open")
    /\ \E ok \in BOOLEAN :
          LET r == saveOpen(tasks[n], fs, ok)
          IN  /\ IF r.done THEN Return(n, r.msgs) ELSE Continue(n, r.task)
              /\ fs' = r.fs
              /\ trace' = Append(trace,
                     <<"OpenFile", LogFilePath, [ok |-> ok, was |-> fs.logFile]>>)

SaveWrite(n) ==
    /\ Running(n, "saveLogsToFile", "write")
    /\ tasks[n].i <= Len(tasks[n].mlogs)
    /\ \E ok \in BOOLEAN :
          LET r == saveWrite(tasks[n], fs, ok)
          IN  /\ IF r.done THEN Return(n, r.msgs) ELSE Continue(n, r.task)
              /\ fs' = r.fs
    /\ UNCHANGED trace

SaveDone(n) ==
    /\ Running(n, "saveLogsToFile", "write")
    /\ tasks[n].i > Len(tasks[n].mlogs)
    /\ Return(n, saveReturn(tasks[n]))
    /\ UNCHANGED <<trace, fs>>

Configure(n) ==
    /\ Running(n, "configureNiri", "open")
    /\ \E e \in ConfigureEnvs :
          LET r == configureNiri(fs, e)
              reads == e.homeOk /\ e.mkdirOk /\ e.exeOk /\ e.inCwd /\ e.readOk
          IN  /\ Return(n, r.msgs)
              /\ fs' = r.fs
              /\ trace' = IF ~(e.homeOk /\ e.mkdirOk /\ e.exeOk)
                           THEN trace
                           ELSE IF reads
                           THEN trace \o
                                << <<"Stat", "config.kdl", TRUE>>,
                                   <<"ReadFile", "config.kdl", e.template>>,
                                   <<"findRenderDevice", "/dev/dri",
                                     findRenderDevice(e.dri.readOk, e.dri.entries)>>,
                                   <<"WriteFile", DestConfigPath, e.write>> >>
                           ELSE trace \o
                                << <<"Stat", "config.kdl", e.besideExe \/ e.inCwd>> >>

Warned(t, ok) == IF ok THEN t ELSE [t EXCEPT !.warn = t.warn + 1]

(* What trace records of a step of setupSystem: the command it ran with the
   command's answer, or the call it made with what the call found. *)
Ran(command, a) == <<"exec", command, a>>

SetupServices(n) ==
    /\ Running(n, "setupSystem", "services")
    /\ \E a \in ServiceAnswers(tasks[n].i) :
          /\ ~a.ok => tasks[n].warn < MaxWarnings
          /\ Continue(n, Warned(serviceStep(tasks[n], a), a.ok))
          /\ trace' = Append(trace, Ran(steps[tasks[n].i].cmd, a))
    /\ UNCHANGED fs

SetupGroup(n) ==
    /\ Running(n, "setupSystem", "group")
    /\ \E u \in Users, a \in SudoAnswers :
          LET good == u # "" /\ a.ok
          IN  /\ u = "" => a.ok
              /\ ~good => tasks[n].warn < MaxWarnings
              /\ Continue(n, Warned(groupStep(tasks[n], u, a), good))
              /\ trace' = Append(trace,
                     IF u = "" THEN <<"getenv", "USER", u>>
                     ELSE Ran(<<"sudo", "pw", "groupmod", "video", "-m", u>>, a))
    /\ UNCHANGED fs

SetupKldload(n) ==
    /\ Running(n, "setupSystem", "kldload")
    /\ \E a \in KldloadAnswers :
          /\ ~a.ok => tasks[n].warn < MaxWarnings
          /\ Continue(n, Warned(kldloadStep(tasks[n], a), a.ok))
          /\ trace' = Append(trace, Ran(<<"sudo", "kldload", "drm">>, a))
    /\ UNCHANGED fs

SetupSysrc(n) ==
    /\ Running(n, "setupSystem", "sysrc")
    /\ \E a \in SudoAnswers :
          /\ ~a.ok => tasks[n].warn < MaxWarnings
          /\ Continue(n, Warned(sysrcStep(tasks[n], a), a.ok))
          /\ trace' = Append(trace, Ran(<<"sudo", "sysrc", "kld_list+=drm">>, a))
    /\ UNCHANGED fs

SetupProfileXdg(n) ==
    /\ Running(n, "setupSystem", "xdg")
    /\ LET r == profileXdgStep(tasks[n], fs)
       IN  /\ Continue(n, r.task)
           /\ fs' = r.fs
           /\ trace' = Append(trace, <<"profile", "XDG_RUNTIME_DIR", r.fs # fs>>)

SetupProfileLibseat(n) ==
    /\ Running(n, "setupSystem", "libseat")
    /\ LET r == profileLibseatStep(tasks[n], fs)
       IN  /\ Continue(n, r.task)
           /\ fs' = r.fs
           /\ trace' = Append(trace, <<"profile", "LIBSEAT_BACKEND", r.fs # fs>>)

SetupRender(n) ==
    /\ Running(n, "setupSystem", "render")
    /\ \E dri \in DriEnvs, openOk \in BOOLEAN :
          LET good == findRenderDevice(dri.readOk, dri.entries) # "" /\ openOk
          IN  /\ ~good => tasks[n].warn < MaxWarnings
              /\ Continue(n, Warned(renderStep(tasks[n], dri, openOk), good))
              /\ trace' = Append(trace,
                     <<"render", findRenderDevice(dri.readOk, dri.entries), good>>)
    /\ UNCHANGED fs

SetupDone(n) ==
    /\ Running(n, "setupSystem", "return")
    /\ Return(n, setupReturn(tasks[n]))
    /\ UNCHANGED <<trace, fs>>

Step(n) ==
    \/ InstallLoop(n) \/ InstallDone(n)
    \/ Validate(n)
    \/ SaveOpen(n) \/ SaveWrite(n) \/ SaveDone(n)
    \/ Configure(n)
    \/ SetupServices(n) \/ SetupGroup(n) \/ SetupKldload(n) \/ SetupSysrc(n)
    \/ SetupProfileXdg(n) \/ SetupProfileLibseat(n) \/ SetupRender(n)
    \/ SetupDone(n)

Next ==
    \/ StatRuntimeDir
    \/ MkdirRuntimeDir
    \/ CheckOwner
    \/ Start
    \/ \E k \in Keys : Key(k)
    \/ Deliver
    \/ \E n \in 1..Len(tasks) : InstallLoop(n)
    \/ \E n \in 1..Len(tasks) : InstallDone(n)
    \/ \E n \in 1..Len(tasks) : Validate(n)
    \/ \E n \in 1..Len(tasks) : SaveOpen(n)
    \/ \E n \in 1..Len(tasks) : SaveWrite(n)
    \/ \E n \in 1..Len(tasks) : SaveDone(n)
    \/ \E n \in 1..Len(tasks) : Configure(n)
    \/ \E n \in 1..Len(tasks) : SetupServices(n)
    \/ \E n \in 1..Len(tasks) : SetupGroup(n)
    \/ \E n \in 1..Len(tasks) : SetupKldload(n)
    \/ \E n \in 1..Len(tasks) : SetupSysrc(n)
    \/ \E n \in 1..Len(tasks) : SetupProfileXdg(n)
    \/ \E n \in 1..Len(tasks) : SetupProfileLibseat(n)
    \/ \E n \in 1..Len(tasks) : SetupRender(n)
    \/ \E n \in 1..Len(tasks) : SetupDone(n)

Spec == Init /\ [][Next]_vars

(* Home directories (with /tmp) where an earlier run left a log file. *)
LogHomes ==
    {FreshFs,
     [FreshFs EXCEPT !.logFile = <<"Niri configuration is valid.", NL>>]}

(* The same program with another user acting on /tmp during the bootstrap. *)
RaceNext == Next \/ Plant

RaceSpec == Init /\ [][RaceNext]_vars

(* The same program, started where the log file may already exist. *)
LogSpec == InitIn(LogHomes) /\ [][Next]_vars

(* The same program, started where a ~/.profile may already exist. *)
ProfileSpec == InitIn(ProfileHomes) /\ [][Next]_vars

(* Command goroutines are scheduled and the external commands they run
   terminate: a running command always takes its next step. *)
FairSpec == Spec /\ WF_vars(\E n \in 1..Len(tasks) : Step(n))

-----------------------------------------------------------------------------
(* Properties *)

Busy == {"installView", "actionView"}

InFlight == Len(tasks) + Len(mailbox)

(* C1: at most one Setup Action is in flight (dispatched, its Result not yet
   consumed) in every reachable state, and no step taken while the state is
   installView or actionView dispatches a command. *)
C1_AtMostOneInFlight ==
    /\ [](InFlight <= 1)
    /\ [][m.state \in Busy =>
            /\ Len(tasks') <= Len(tasks)
            /\ dispatched' = dispatched]_vars

W_C1_KeyWhileResultWaits ==
    /\ m.state \in Busy
    /\ Len(mailbox) = 1
    /\ cmd = "nil"

(* C2: whenever Update consumes a Result, with or without an error, the state
   after it is menuView. *)
C2_ResultReturnsToMenu == [][Deliver => m'.state = "menuView"]_vars

(* C3: while the state is installView or actionView, handling any key leaves
   cursor, selected and state unchanged, dispatches no command and does not
   quit; a step that changes one of them is the handling of a completion
   message. *)
C3_BusyIgnoresKeys ==
    [][m.state \in Busy =>
         /\ \A k \in Keys : Key(k) =>
               /\ m'.cursor = m.cursor
               /\ m'.selected = m.selected
               /\ m'.state = m.state
               /\ cmd' = "nil"
               /\ tasks' = tasks
               /\ quit' = FALSE
         /\ (<<m'.cursor, m'.selected, m'.state>> # <<m.cursor, m.selected, m.state>>)
               => Deliver]_vars

W_C3_KeyWhileRunning ==
    /\ m.state \in Busy
    /\ Len(tasks) = 1
    /\ cmd = "nil"

QuitKey(k) ==
    \/ k \in {"q", "ctrl+c"}
    \/ k = "enter" /\ choices[m.cursor + 1] = "Exit"

(* C4: from menuView, a quit key, or enter with the cursor on "Exit", returns
   tea.Quit and dispatches no action; no action is in flight at that moment
   and nothing is processed once the program has quit. *)
C4_QuitTerminates ==
    /\ [][\A k \in Keys : (m.state = "menuView" /\ QuitKey(k) /\ Key(k)) =>
             /\ cmd' = "Quit"
             /\ quit'
             /\ tasks' = <<>>
             /\ mailbox' = <<>>
             /\ dispatched' = dispatched]_vars
    /\ [][quit => UNCHANGED vars]_vars

W_C4_ExitChosen ==
    /\ quit
    /\ cmd = "Quit"
    /\ m.selected = "Exit"
    /\ dispatched > 0

Last == Len(choices) - 1

(* C5: 0 <= cursor <= len(choices)-1 always; in the menu "up" at 0 and "down"
   at the last index leave the cursor where it is, elsewhere they move it by
   exactly one; no other step moves it. *)
C5_CursorSaturates ==
    /\ [](m.cursor \in 0..Last)
    /\ [][/\ (m.state = "menuView" /\ Key("up")) =>
               m'.cursor = IF m.cursor = 0 THEN 0 ELSE m.cursor - 1
          /\ (m.state = "menuView" /\ Key("down")) =>
               m'.cursor = IF m.cursor = Last THEN Last ELSE m.cursor + 1
          /\ m'.cursor # m.cursor =>
               m.state = "menuView" /\ (Key("up") \/ Key("down"))]_vars

W_C5_CursorAtLast ==
    /\ m.state = "menuView"
    /\ m.cursor = Last
    /\ cmd = "nil"

Succeeds == Deliver /\ Head(mailbox).err.nil

(* C6 as stated: a successful Result clears the log buffer only after Install
   Niri; after Setup System, Configure, Validate and Save Logs the buffer is
   the earlier buffer followed by the Result's text. *)
C6_ClearedOnlyAfterInstall ==
    [][Succeeds =>
         IF m.selected = "Install Niri"
         THEN m'.logs = <<>>
         ELSE m'.logs = Append(m.logs, Head(mailbox).status)]_vars

(* C6 amended: a successful Result clears the log buffer exactly after the
   actions shown in the install view, Install Niri and Setup System; after
   Configure, Validate and Save Logs the buffer is the earlier buffer followed
   by the Result's text. *)
C6_ClearedAfterInstallView ==
    [][Succeeds =>
         /\ m'.state = "menuView"
         /\ IF m.selected \in {"Install Niri", "Setup System"}
            THEN m'.logs = <<>>
            ELSE m'.logs = Append(m.logs, Head(mailbox).status)]_vars

W_C6_TwoEntriesKept ==
    /\ m.state = "menuView"
    /\ Len(m.logs) = 2
    /\ m.selected = "Save Logs"
    /\ m.logs[1] # m.logs[2]

(* C7: every dispatched action hands exactly one message to the event loop:
   a command that ends adds one message, a message is added only by a command
   that ends, and every running command does end. *)
C7_ExactlyOneMessage ==
    /\ [][/\ Len(tasks') < Len(tasks) =>
               Len(tasks') = Len(tasks) - 1 /\ Len(mailbox') = Len(mailbox) + 1
          /\ Len(mailbox') > Len(mailbox) =>
               Len(tasks') = Len(tasks) - 1 /\ Len(mailbox') = Len(mailbox) + 1]_vars
    /\ (tasks # <<>>) ~> (tasks = <<>> /\ Len(mailbox) = 1)

W_C7_FailureDelivered ==
    /\ tasks = <<>>
    /\ Len(mailbox) = 1
    /\ ~Head(mailbox).err.nil
    /\ m.selected = "Save Logs"

-----------------------------------------------------------------------------
(* Properties of Install Niri, read off the commands it ran *)

Range(f) == {f[j] : j \in DOMAIN f}

InfoSeq == SelectSeq(trace, LAMBDA e : e[1] = "pkg info")

FailedPkgs ==
    LET F == SelectSeq(trace, LAMBDA e : e[1] = "pkg install" /\ ~e[3])
    IN  [j \in 1..Len(F) |-> F[j][2]]

RECURSIVE Lines(_)
Lines(str) ==
    IF \A j \in 1..Len(str) : str[j] # NL THEN <<str>>
    ELSE LET k == CHOOSE j \in 1..Len(str) :
                     str[j] = NL /\ \A h \in 1..(j - 1) : str[h] # NL
         IN  <<SubSeq(str, 1, k - 1)>> \o Lines(SubSeq(str, k + 1, Len(str)))

LastLine(str) == Lines(str)[Len(Lines(str))]

SummaryNames(line) == SelectSeq(SubSeq(line, 4, Len(line)), LAMBDA x : x # ", ")

InstallResult == m.selected = "Install Niri" /\ mailbox # <<>>

(* C8: a failed install does not end the loop: when Install Niri returns,
   every package of the list has been checked, in list order, and every absent
   one has had its install attempted; the Result carries an error exactly if
   some install failed, and then its last line is the summary naming the
   packages whose install failed, in list order. *)
C8_FailureDoesNotAbort ==
    InstallResult =>
        LET msg == Head(mailbox)
        IN  /\ [j \in 1..Len(InfoSeq) |-> InfoSeq[j][2]] = pkgs
            /\ \A j \in 1..Len(InfoSeq) :
                  ~InfoSeq[j][3] =>
                      \E b \in BOOLEAN : Installed(pkgs[j], b) \in Range(trace)
            /\ msg.err.nil <=> FailedPkgs = <<>>
            /\ FailedPkgs # <<>> =>
                  /\ LastLine(msg.status)[1] = "Failed packages ("
                  /\ LastLine(msg.status)[2] = ToString(Len(FailedPkgs))
                  /\ SummaryNames(LastLine(msg.status)) = FailedPkgs

W_C8_TwoFailuresThenSuccess ==
    /\ InstallResult
    /\ Installed(pkgs[1], FALSE) \in Range(trace)
    /\ Installed(pkgs[2], FALSE) \in Range(trace)
    /\ Installed(pkgs[3], TRUE) \in Range(trace)

(* C9 as stated: the first failed install ends the action, no package after
   it is checked or installed. *)
C9_AbortsOnFirstFailure ==
    \A j \in 1..Len(trace) :
        (trace[j][1] = "pkg install" /\ ~trace[j][3]) => j = Len(trace)

Reported(pkg) ==
    IF Checked(pkg, TRUE) \in Range(trace) THEN <<"Already installed: ", pkg>>
    ELSE IF Installed(pkg, FALSE) \in Range(trace) THEN <<"Failed to install ", pkg>>
    ELSE <<"Successfully installed ", pkg>>

(* C9 amended: a failed install does not end the Install action; the Result
   has one line for every package of the list, in list order, which reports
   the package as failed if its install failed and as already installed if
   the presence check found it. *)
C9_ReportsEveryPackage ==
    InstallResult =>
        LET lines == Lines(Head(mailbox).status)
        IN  /\ Len(lines) >= Len(pkgs)
            /\ \A j \in 1..Len(pkgs) :
                  /\ \E e \in Range(trace) : e[2] = pkgs[j]
                  /\ SubSeq(lines[j], 1, 2) = Reported(pkgs[j])

W_C9_SatisfiedAfterFailure ==
    /\ InstallResult
    /\ Installed(pkgs[1], FALSE) \in Range(trace)
    /\ Checked(pkgs[2], TRUE) \in Range(trace)

(* C10: pkg install is run for a package only right after pkg info reported
   it absent; a package pkg info reported present is never installed and its
   log line is "Already installed". *)
C10_InstallOnlyIfAbsent ==
    /\ \A j \in 1..Len(trace) :
          trace[j][1] = "pkg install" =>
              j > 1 /\ trace[j - 1] = Checked(trace[j][2], FALSE)
    /\ \A e \in Range(trace) :
          (e[1] = "pkg info" /\ e[3]) =>
              \A b \in BOOLEAN : Installed(e[2], b) \notin Range(trace)
    /\ \A n \in 1..Len(tasks) :
          tasks[n].kind = "installNiri" =>
              \A j \in 1..Len(tasks[n].logs) :
                  (Checked(pkgs[j], TRUE) \in Range(trace))
                      <=> (tasks[n].logs[j] = <<"Already installed: ", pkgs[j]>>)

W_C10_SkippedThenInstalled ==
    /\ tasks # <<>>
    /\ tasks[1].kind = "installNiri"
    /\ Checked(pkgs[1], TRUE) \in Range(trace)
    /\ Installed(pkgs[2], TRUE) \in Range(trace)

-----------------------------------------------------------------------------
(* Properties of the Results, read off the commands the action ran *)

(* The benign-failure patterns of a command: "already running" for a service
   start, "already loaded" for kldload, none for any other command. *)
BenignPatterns(command) ==
    IF command[2] = "service" THEN {"already running"}
    ELSE IF command[2] = "kldload" THEN {"already loaded"}
    ELSE {}

(* Entry e of trace is a command that failed with an output that matches none
   of its benign-failure patterns. *)
HardFailure(e) ==
    \/ e[1] \in {"pkg install", "niri validate"} /\ ~e[3]
    \/ /\ e[1] = "exec"
       /\ ~e[3].ok
       /\ \A pat \in BenignPatterns(e[2]) : ~Contains(e[3].out, pat)

CommandAction == {"Install Niri", "Setup System", "Validate Config"}

(* C11: the Result of a Setup Action, Setup System included, carries an error
   if and only if one of the commands it ran failed with an output that
   matches none of that step's benign-failure patterns. *)
C11_ErrorIffHardFailure ==
    (mailbox # <<>> /\ m.selected \in CommandAction) =>
        (~Head(mailbox).err.nil <=> \E j \in 1..Len(trace) : HardFailure(trace[j]))

(* The steps the action went through, in the order it went through them: a
   package of Install Niri counts once, with or without its install. *)
StepSeq == SelectSeq(trace, LAMBDA e : e[1] # "pkg install")

(* The tokens by which a log entry names the step e. *)
StepTopic(e) ==
    CASE e[1] = "pkg info" ->
           {"Already installed: ", "Failed to install ", "Successfully installed "}
      [] e[1] = "exec" /\ e[2][2] \in {"sysrc", "service"} /\ e[2][3] # "kld_list+=drm" ->
           {steps[j].desc : j \in {k \in 1..Len(steps) : steps[k].cmd = e[2]}}
      [] e[1] = "exec" /\ e[2][2] = "pw" ->
           {"Added user '", "Warning: Adding user to video group: "}
      [] e[1] = "getenv" ->
           {"Warning: Could not determine current user for group setup"}
      [] e[1] = "exec" /\ e[2][2] = "kldload" ->
           {"Loading DRM kernel module: OK", "Loading DRM kernel module: already loaded",
            "Warning: Loading DRM kernel module: "}
      [] e[1] = "exec" /\ e[2][3] = "kld_list+=drm" ->
           {"Persisting DRM module to boot: OK", "Warning: Persisting DRM module to boot: "}
      [] e[1] = "profile" /\ e[2] = "XDG_RUNTIME_DIR" ->
           {"Added XDG_RUNTIME_DIR to ", "XDG_RUNTIME_DIR already in .profile: OK",
            "Warning: Could not write to "}
      [] e[1] = "profile" /\ e[2] = "LIBSEAT_BACKEND" ->
           {"Added LIBSEAT_BACKEND=consolekit2 to .profile: OK",
            "LIBSEAT_BACKEND already in .profile: OK", "Warning: Could not write to "}
      [] e[1] = "render" ->
           {"Found DRM render device: ", "Warning: No DRM render device found in /dev/dri/"}
      [] OTHER -> {}

NamesStep(line, e) ==
    /\ \E j \in 1..Len(line) : line[j] \in StepTopic(e)
    /\ e[1] = "pkg info" => Len(line) >= 2 /\ line[2] = e[2]

(* The lines that close the log text after the entries of the steps: the
   summary of Install Niri when a package failed, the closing lines of Setup
   System. *)
ClosingLines ==
    IF m.selected = "Setup System" THEN SetupTrailer
    ELSE IF FailedPkgs # <<>> THEN <<<<>>, LastLine(Head(mailbox).status)>>
    ELSE <<>>

StepResult == mailbox # <<>> /\ m.selected \in {"Install Niri", "Setup System"}

(* C12 as stated: the log text of the Result has exactly one entry for every
   step the action went through, in the order of the steps (and after them
   only the closing lines). *)
C12_OneEntryPerStep ==
    StepResult =>
        LET lines == Lines(Head(mailbox).status)
        IN  /\ lines = SubSeq(lines, 1, Len(StepSeq)) \o ClosingLines
            /\ \A j \in 1..Len(StepSeq) : NamesStep(lines[j], StepSeq[j])

(* The number of log entries of step e: the render-device probe logs two. *)
EntryCount(e) == IF e[1] = "render" THEN 2 ELSE 1

RECURSIVE EntriesBefore(_)
EntriesBefore(j) ==
    IF j = 1 THEN 0 ELSE EntriesBefore(j - 1) + EntryCount(StepSeq[j - 1])

(* C12 amended: the log text of the Result has the entries of the steps the
   action went through, in the order of the steps: one entry for every step
   but the render-device probe of Setup System, which has two; after them come
   only the closing lines. *)
C12_EntriesInStepOrder ==
    StepResult =>
        LET lines == Lines(Head(mailbox).status)
            total == EntriesBefore(Len(StepSeq) + 1)
        IN  /\ lines = SubSeq(lines, 1, total) \o ClosingLines
            /\ \A j \in 1..Len(StepSeq) :
                  NamesStep(lines[EntriesBefore(j) + 1], StepSeq[j])
            /\ Len(StepSeq) = IF m.selected = "Setup System" THEN Len(steps) + 6 ELSE Len(pkgs)

W_C12_BenignFailureLogged ==
    /\ StepResult
    /\ m.selected = "Setup System"
    /\ \E j \in 1..Len(trace) :
          trace[j][1] = "exec" /\ ~trace[j][3].ok /\ ~HardFailure(trace[j])

-----------------------------------------------------------------------------
(* Properties of Configure Niri, read off the calls it made *)

TraceOf(call) == (CHOOSE j \in 1..Len(trace) : trace[j][1] = call)

ConfigureDone ==
    /\ mailbox # <<>>
    /\ m.selected = "Configure Niri"
    /\ Head(mailbox).err.nil

HardwareBlock(dev) ==
    <<NL, "// Explicitly set the DRM render device for EGL display creation.",
      NL, "debug {", NL, "    render-drm-device \"", dev, "\"", NL, "}", NL>>

(* C13: after a successful Configure the destination holds exactly the
   template that was read, followed by the hardware block exactly if a render
   device was found and the template does not mention the render-device
   setting; whatever the destination held before is gone. *)
C13_DestinationIsTemplate ==
    ConfigureDone =>
        LET template == trace[TraceOf("ReadFile")][3]
            dev      == trace[TraceOf("findRenderDevice")][3]
        IN  fs.destConfig =
               IF dev # "" /\ "render-drm-device" \notin Range(template)
               THEN template \o HardwareBlock(dev)
               ELSE template

(* The destination held a configuration with a hardware block, written by an
   earlier Configure, and now holds the bare template. *)
W_C13_OldBlockOverwritten ==
    /\ ConfigureDone
    /\ Len(m.logs) = 1
    /\ "DRM render device set to: " \in Range(m.logs[1])
    /\ fs.destConfig = <<"layout {}">>

-----------------------------------------------------------------------------
(* Properties of the runtime-directory bootstrap *)

Foreign == fs.runtimeDir # Absent /\ Owner(fs.runtimeDir) # Euid

(* The files and directories, without the process environment. *)
Files(f) == [f EXCEPT !.xdgRuntimeDir = ""]

(* C14: with an entry at the runtime directory path that another UID owns,
   the program goes from the first Stat to the ownership check and from there
   to the fatal exit (status 1); the UI never starts and no file or directory
   is created or changed. *)
C14_ForeignDirIsFatal ==
    /\ [](Foreign =>
            /\ pc \in {"setupEnvironment", "check", "fatal"}
            /\ Files(fs) = [FreshFs EXCEPT !.runtimeDir = fs.runtimeDir]
            /\ m = initialModel /\ tasks = <<>> /\ mailbox = <<>>)
    /\ [][Foreign =>
            /\ pc = "setupEnvironment" => pc' = "check"
            /\ pc = "check" => pc' = "fatal"
            /\ Files(fs') = Files(fs)]_vars

W_C14_FatalExit ==
    /\ Foreign
    /\ pc = "fatal"
    /\ Len(trace) = 2

(* C15: with nothing at the runtime directory path, setupEnvironment goes on
   to os.Mkdir; if that succeeds the directory exists, owned by the user with
   mode 0700, and main starts the UI, which begins in the menu; if it fails
   the program ends with the fatal exit and has created nothing. *)
C15_AbsentDirIsCreated ==
    /\ [][/\ (pc = "setupEnvironment" /\ fs.runtimeDir = Absent) =>
                 pc' = "Mkdir" /\ Files(fs') = Files(fs)
          /\ pc = "Mkdir" =>
                 \/ pc' = "Start" /\ fs'.runtimeDir = Dir(Euid, "0700")
                 \/ pc' = "fatal" /\ fs' = fs
          /\ pc = "Start" =>
                 \/ pc' = "running" /\ m' = initialModel /\ m'.state = "menuView"
                 \/ pc' = "fatal"
          /\ pc = "fatal" => pc' = "fatal"]_vars
    /\ [](pc = "Mkdir" => fs.runtimeDir = Absent)
    /\ [](pc \in {"Start", "running"} => fs.runtimeDir = Dir(Euid, "0700"))

W_C15_CreatedAndStarted ==
    /\ pc = "running"
    /\ trace = << <<"Stat", RuntimeDirPath, FALSE>>, <<"Mkdir", RuntimeDirPath, TRUE>> >>
    /\ fs.runtimeDir = Dir(Euid, "0700")
    /\ m.state = "menuView"

-----------------------------------------------------------------------------
(* Properties of the profile steps of Setup System *)

Content(file) == IF file = Absent THEN <<>> ELSE file

Count(str, tok) == Cardinality({j \in 1..Len(str) : str[j] = tok})

ExportLines == {XdgLine, "export LIBSEAT_BACKEND=consolekit2"}

(* C16: however ~/.profile started (absent, readable, unreadable), after up
   to two runs of Setup System each export line occurs in it at most once
   more than it did at the start. *)
C16_NoDuplicateExport ==
    \A line \in ExportLines :
        Count(Content(fs.profile), line)
            <= Count(Content(fs.profileAtStart), line) + 1

-----------------------------------------------------------------------------
(* Properties of Save Logs *)

IsPrefix(a, b) == Len(a) <= Len(b) /\ SubSeq(b, 1, Len(a)) = a

(* What the loop over m.logs writes: every entry followed by a newline. *)
RECURSIVE Written(_)
Written(logs) ==
    IF logs = <<>> THEN <<>> ELSE Head(logs) \o <<NL>> \o Written(Tail(logs))

SaveLogsDone ==
    /\ mailbox # <<>>
    /\ m.selected = "Save Logs"
    /\ Head(mailbox).err.nil

(* C17: no step takes anything away from the log file: what it held stays
   as a prefix of what it holds, and once it exists it stays; after a
   successful Save Logs the file exists and holds what it held when it was
   opened, followed by the entries of the log buffer in order, each with its
   newline. *)
C17_SaveLogsAppends ==
    /\ [][/\ IsPrefix(Content(fs.logFile), Content(fs'.logFile))
          /\ fs.logFile # Absent => fs'.logFile # Absent]_vars
    /\ [](SaveLogsDone =>
            /\ fs.logFile # Absent
            /\ fs.logFile =
                  Content(trace[TraceOf("OpenFile")][3].was) \o Written(m.logs))

W_C17_AppendedToOldFile ==
    /\ SaveLogsDone
    /\ trace[TraceOf("OpenFile")][3].was = <<"Niri configuration is valid.", NL>>
    /\ Len(m.logs) = 1
    /\ Len(fs.logFile) > 2 + Len(m.logs[1])

InstallLineHeads ==
    {"Already installed: ", "Failed to install ", "Successfully installed "}

(* The log buffer has an entry with a line about package pkg. *)
HoldsLineOf(logs, pkg) ==
    \E j \in 1..Len(logs) : \E k \in 1..(Len(logs[j]) - 1) :
        logs[j][k] \in InstallLineHeads /\ logs[j][k + 1] = pkg

(* C18: when Save Logs is chosen in the menu that follows a completed Install
   Niri, the buffer handed to saveLogsToFile, which is what it writes to the
   log file, holds the lines of that installation: one for every package. *)
C18_InstallLogIsSaved ==
    [][(/\ m.state = "menuView"
        /\ m.selected = "Install Niri"
        /\ Key("enter")
        /\ cmd' = "saveLogsToFile")
         => \A j \in 1..Len(pkgs) : HoldsLineOf(tasks'[Len(tasks')].mlogs, pkgs[j])]_vars

-----------------------------------------------------------------------------
(* Properties of what the user is shown *)

(* The view shows text: text occurs in it, in one piece. *)
Displays(view, text) ==
    \E k \in 0..(Len(view) - Len(text)) : SubSeq(view, k + 1, k + Len(text)) = text

(* C19: when Update consumes a Result that carries an error, the view of the
   state it reaches shows the text of that Result, whichever action the Result
   is of. *)
C19_FailureTextDisplayed ==
    [][(Deliver /\ ~Head(mailbox).err.nil) =>
           Displays(View(m'), Head(mailbox).status)]_vars

-----------------------------------------------------------------------------
(* Properties of the order of the steps of Setup System *)

(* Entry e of trace is what the j-th step of Setup System does: the four
   service commands, the group change (or the missing user), kldload, sysrc
   kld_list, the two profile lines, the render device probe. *)
IsSetupStep(j, e) ==
    CASE j \in 1..Len(steps) -> e[1] = "exec" /\ e[2] = steps[j].cmd
      [] j = Len(steps) + 1 ->
           \/ e[1] = "exec" /\ SubSeq(e[2], 1, 5) = <<"sudo", "pw", "groupmod", "video", "-m">>
           \/ e[1] = "getenv"
      [] j = Len(steps) + 2 -> e[1] = "exec" /\ e[2] = <<"sudo", "kldload", "drm">>
      [] j = Len(steps) + 3 -> e[1] = "exec" /\ e[2] = <<"sudo", "sysrc", "kld_list+=drm">>
      [] j = Len(steps) + 4 -> e[1] = "profile" /\ e[2] = "XDG_RUNTIME_DIR"
      [] j = Len(steps) + 5 -> e[1] = "profile" /\ e[2] = "LIBSEAT_BACKEND"
      [] j = Len(steps) + 6 -> e[1] = "render"
      [] OTHER -> FALSE

SetupInFlight == m.selected = "Setup System" /\ m.state = "installView"

SetupResult == SetupInFlight /\ mailbox # <<>>

(* C20: Setup System goes through its steps one at a time in the fixed order;
   when it returns every step has been attempted, whatever the earlier ones
   answered; a service command that fails with "already running" in its
   output is logged as "<step>: already running" and not as a warning. *)
C20_StepsInFixedOrder ==
    /\ [](SetupInFlight => \A j \in 1..Len(trace) : IsSetupStep(j, trace[j]))
    /\ [](SetupResult =>
            /\ Len(trace) = Len(steps) + 6
            /\ \A j \in 1..Len(steps) :
                  (~trace[j][3].ok /\ Contains(trace[j][3].out, "already running"))
                      => Lines(Head(mailbox).status)[j] =
                             <<steps[j].desc, ": already running">>)
    /\ [][(SetupInFlight /\ tasks # <<>> /\ trace' # trace) =>
              /\ Len(trace') = Len(trace) + 1
              /\ SubSeq(trace', 1, Len(trace)) = trace]_vars

W_C20_AllStepsAfterFailure ==
    /\ SetupResult
    /\ HardFailure(trace[1])
    /\ trace[Len(steps) + 6][1] = "render"

-----------------------------------------------------------------------------
(* Properties of Configure Niri without a template *)

(* Configure Niri has returned and found config.kdl neither beside the
   executable nor in the working directory. *)
TemplateMissing(tr) ==
    \E j \in 1..Len(tr) : tr[j] = <<"Stat", "config.kdl", FALSE>>

(* C21: a Configure that finds no template returns a Result with an error
   and leaves the destination file as it was: unchanged if it existed, still
   absent if it did not. *)
C21_MissingTemplateKeepsDest ==
    /\ [][(m.selected = "Configure Niri" /\ tasks # <<>> /\ TemplateMissing(trace')) =>
              /\ tasks' = <<>>
              /\ fs'.destConfig = fs.destConfig]_vars
    /\ [](m.selected = "Configure Niri" /\ mailbox # <<>> /\ TemplateMissing(trace)
             => ~Head(mailbox).err.nil)

(* The destination holds what an earlier Configure wrote, and a Configure
   that found no template has returned. *)
W_C21_ExistingDestKept ==
    /\ m.selected = "Configure Niri"
    /\ mailbox # <<>>
    /\ TemplateMissing(trace)
    /\ Len(m.logs) = 1
    /\ fs.destConfig \in Templates

-----------------------------------------------------------------------------
(* Properties of the bootstrap with another user acting on /tmp *)

(* C22: whenever another user creates the entry, setupEnvironment never
   returns (so that main starts the UI) while the entry at the runtime
   directory path is owned by a UID other than the effective UID. *)
C22_NeverStartsOnForeignEntry ==
    pc \in {"Start", "running"} =>
        ~(fs.runtimeDir # Absent /\ EntryOwner(fs.runtimeDir) # Euid)

=============================================================================
